---- MODULE Spec2Model ----
(***************************************************************************)
(* Model of FINANCIAL.py, the Ladder financial dashboard: the SQL queries  *)
(* of its loaders evaluated over a ledger of transactions, and the page    *)
(* scripts that consume the loaders' results.                              *)
(*                                                                         *)
(* A nullable SQL value is <<>> (NULL) or <<v>>.  A table is a bag of rows. *)
(* A timestamp is a number of ticks, TicksPerDay ticks to the day; a date  *)
(* is a day number; a date string bound to a timestamp comparison is the   *)
(* midnight of that day.  Amounts are integers (minor units).              *)
(***************************************************************************)
EXTENDS Integers, Sequences, FiniteSets, Bags, TLC

VARIABLES ledger, call, store_ok, cache, run, runs

vars == <<ledger, call, store_ok, cache, run, runs>>

\* the variables of the page scripts
pageVars == <<store_ok, cache, run, runs>>

(***************************************************************************)
(* Bounds of the model.                                                    *)
(***************************************************************************)
MaxTx == 2
MaxDay == 1
MaxRuns == 2

MaxToday == 35

(***************************************************************************)
(* SQL values.                                                             *)
(***************************************************************************)
NULL == <<>>

Some(v) == <<v>>

\* COALESCE(x, y)
Coalesce(x, y) == IF x # NULL THEN x ELSE y

\* x - y, NULL when either operand is NULL
Minus(x, y) == IF x = NULL \/ y = NULL THEN NULL ELSE Some(x[1] - y[1])

\* x BETWEEN lo AND hi
Between(x, lo, hi) == lo <= x /\ x <= hi

RECURSIVE Total(_)
\* the sum of the values of a function with a finite domain
Total(f) ==
    IF DOMAIN f = {} THEN 0
    ELSE LET x == CHOOSE y \in DOMAIN f : TRUE
         IN  f[x] + Total([y \in DOMAIN f \ {x} |-> f[y]])

\* the least element of a non-empty set of integers
Min(S) == CHOOSE x \in S : \A y \in S : x <= y

(***************************************************************************)
(* Time.                                                                   *)
(***************************************************************************)
TicksPerDay == 2

Days == 0..MaxDay

Timestamps == 0..((MaxDay + 1) * TicksPerDay - 1)

\* a 'YYYY-MM-DD' parameter compared with a timestamp column
Midnight(d) == d * TicksPerDay

\* DATE(ts)
Date(ts) == ts \div TicksPerDay

Windows == {w \in Days \X Days : w[1] <= w[2]}

(***************************************************************************)
(* The tables the queries join the transactions with.                      *)
(***************************************************************************)
users ==
    (1 :> [restricted |-> FALSE, created_at |-> 0, updated_at |-> 1,
           metadata |-> "{\"KYC_Completed\": true}", most_recent_activity |-> Some(1)]) @@
    (2 :> [restricted |-> FALSE, created_at |-> 1, updated_at |-> 1,
           metadata |-> "{}", most_recent_activity |-> NULL]) @@
    (3 :> [restricted |-> TRUE, created_at |-> Midnight(MaxDay),
           updated_at |-> Midnight(MaxDay), metadata |-> "{\"kyc_completed\": true}",
           most_recent_activity |-> Some(Midnight(MaxDay))]) @@
    (4 :> [restricted |-> FALSE, created_at |-> 0, updated_at |-> 0,
           metadata |-> "{}", most_recent_activity |-> NULL])

assets == (1 :> [name |-> Some("Ladder Lock")])

\* the asset-type labels of the plans 4, 5, ...: the nine labels of the fee
\* schedule, a label that differs from one of them in letter case only, and
\* a label the schedule does not have
PlanOptions ==
    <<"Arbitrage", "flex dollar savings", "Ladder Lock", "goal savings",
      "Risevest fixed income", "Risevest real estate", "Equity", "Mutual funds",
      "ETFs", "ladder lock", "Treasury bills">>

plans ==
    (1 :> [user_id |-> 1, plan_option |-> Some("goal savings"), created_at |-> 0]) @@
    (2 :> [user_id |-> 2, plan_option |-> NULL, created_at |-> 1]) @@
    (3 :> [user_id |-> 3, plan_option |-> Some("goal savings"),
           created_at |-> Midnight(MaxDay)]) @@
    [i \in 4..(3 + Len(PlanOptions)) |->
        [user_id |-> 1, plan_option |-> Some(PlanOptions[i - 3]), created_at |-> 0]]

investment_plans ==
    (1 :> [user_id |-> 1, asset_id |-> Some(1), created_at |-> 1]) @@
    (2 :> [user_id |-> 2, asset_id |-> Some(1), created_at |-> Midnight(MaxDay)]) @@
    (3 :> [user_id |-> 4, asset_id |-> Some(1),
           created_at |-> (MaxDay + 1) * TicksPerDay - 1])

\* the rows of budgets and of manual_and_external_transactions
budgets == {[user_id |-> 2, created_at |-> 0]}

manual_and_external_transactions == {[user_id |-> 3, created_at |-> Midnight(MaxDay)]}

\* the two mutually exclusive links of a transaction: <<plan_id, investment_plan_id>>
Links ==
    {<<Some(p), NULL>> : p \in DOMAIN plans} \cup
    {<<NULL, Some(i)>> : i \in DOMAIN investment_plans} \cup
    {<<NULL, NULL>>}

(***************************************************************************)
(* Transaction metadata and the maintenance-fee marker.                    *)
(***************************************************************************)
MetadataTexts ==
    {"{}", "{\"narration\": \"MONTHLY Maintenance Fee Deduction\"}"}

\* the text folded to lower case, as ILIKE compares it
Lower(m) ==
    CASE m = "{\"narration\": \"MONTHLY Maintenance Fee Deduction\"}" ->
            "{\"narration\": \"monthly maintenance fee deduction\"}"
      [] m = "{\"KYC_Completed\": true}" -> "{\"kyc_completed\": true}"
      [] OTHER -> m

\* s LIKE '%monthly maintenance fee deduction%', s in lower case
ContainsMarker(s) == s \in {"{\"narration\": \"monthly maintenance fee deduction\"}"}

\* LIKE in the place of ILIKE: the text is compared in its own case
LikeMaintenanceFee(m) == ContainsMarker(m)

\* t.metadata::text ILIKE '%Monthly maintenance fee deduction%'
ILikeMaintenanceFee(m) == ContainsMarker(Lower(m))

(***************************************************************************)
(* The columns of base_data, per transaction row t.                        *)
(***************************************************************************)
\* LEFT JOIN plans p ON p.id = t.plan_id: p.user_id
p_user_id(t) == IF t.plan_id = NULL THEN NULL ELSE Some(plans[t.plan_id[1]].user_id)

\* LEFT JOIN investment_plans ip ON ip.id = t.investment_plan_id: ip.user_id
ip_user_id(t) ==
    IF t.investment_plan_id = NULL THEN NULL
    ELSE Some(investment_plans[t.investment_plan_id[1]].user_id)

\* LEFT JOIN users u ON u.id = COALESCE(p.user_id, ip.user_id): u.id
customer_id(t) == Coalesce(p_user_id(t), ip_user_id(t))

\* u.restricted
u_restricted(t) ==
    IF customer_id(t) = NULL THEN NULL ELSE Some(users[customer_id(t)[1]].restricted)

\* LEFT JOIN assets a ON a.id = ip.asset_id: a.name
a_name(t) ==
    IF t.investment_plan_id = NULL THEN NULL
    ELSE LET ip == investment_plans[t.investment_plan_id[1]]
         IN  IF ip.asset_id = NULL THEN NULL ELSE assets[ip.asset_id[1]].name

\* p.plan_option
p_plan_option(t) == IF t.plan_id = NULL THEN NULL ELSE plans[t.plan_id[1]].plan_option

\* CASE WHEN investment_plan_id IS NOT NULL THEN a.name
\*      WHEN plan_id IS NOT NULL THEN p.plan_option ELSE NULL END
asset_type(t) ==
    IF t.investment_plan_id # NULL THEN a_name(t)
    ELSE IF t.plan_id # NULL THEN p_plan_option(t)
    ELSE NULL

\* CASE WHEN metadata ILIKE marker THEN 'maintenance_fee' ELSE t.tx_type END
transaction_type(t) ==
    IF ILikeMaintenanceFee(t.metadata) THEN "maintenance_fee" ELSE t.tx_type

\* the WHERE clause without the condition on the provider
InBaseDataAnyProvider(t) ==
    /\ t.status = "success"
    /\ u_restricted(t) = Some(FALSE)

\* WHERE t.status = 'success' AND u.restricted = 'false'
\*   AND t.provider_number != 'Flex Dollar'
InBaseData(t) ==
    /\ t.status = "success"
    /\ u_restricted(t) = Some(FALSE)
    /\ t.provider_number # "Flex Dollar"

(***************************************************************************)
(* Aggregates over a set S of distinct rows of the bag L.                  *)
(***************************************************************************)
\* COUNT(*)
CountRows(L, S) == Total([t \in S |-> L[t]])

\* SUM(ghs_amount): NULL over no rows
SumGhs(L, S) == IF S = {} THEN NULL ELSE Some(Total([t \in S |-> L[t] * t.amount]))

\* SUM(usd_amount): NULL over no rows
SumUsd(L, S) == IF S = {} THEN NULL ELSE Some(Total([t \in S |-> L[t] * t.usd_amount]))

\* AVG(x): NULL over no rows, else the exact quotient <<sum, count>>
Avg(sum, count) == IF sum = NULL THEN NULL ELSE Some(<<sum[1], count>>)

\* the difference without COALESCE around the withdrawal sum
AumWithoutCoalesce(deposit_value, withdrawal_value) ==
    Minus(deposit_value, withdrawal_value)

\* SUM(deposits) - COALESCE(SUM(withdrawals), 0)
Aum(deposit_value, withdrawal_value) ==
    Minus(deposit_value, Coalesce(withdrawal_value, Some(0)))

\* first_transactions: MIN(t.updated_at) ... WHERE t.status = 'success'
\*   GROUP BY COALESCE(p.user_id, ip.user_id)
first_transactions(L) ==
    LET S == {t \in BagToSet(L) : t.status = "success"}
    IN  [c \in {customer_id(t) : t \in S} |->
            Min({t.updated_at : t \in {x \in S : customer_id(x) = c}})]

\* ft.first_transaction_date of a row of base_data:
\* LEFT JOIN first_transactions ft ON ft.user_id = u.id
first_transaction_date(L, t) ==
    IF customer_id(t) \in DOMAIN first_transactions(L)
    THEN Some(first_transactions(L)[customer_id(t)])
    ELSE NULL

\* the rows of base_data
base_data(L) == {t \in BagToSet(L) : InBaseData(t)}

\* deposits AS (SELECT * FROM base_data WHERE transaction_type = 'deposit')
deposits(L) == {t \in base_data(L) : transaction_type(t) = "deposit"}

\* WHERE transaction_date BETWEEN :start_date AND :end_date
InWindow(t, start_date, end_date) ==
    Between(t.updated_at, Midnight(start_date), Midnight(end_date))

\* the rows of base_data the final SELECT aggregates
WindowRows(L, start_date, end_date) ==
    {t \in base_data(L) : InWindow(t, start_date, end_date)}

\* depositors_summary with COUNT(DISTINCT DATE(transaction_date)) in the place
\* of COUNT(DISTINCT transaction_date)
DepositorSummaryDistinctDays(L, D) ==
    [deposit_count |-> CountRows(L, D),
     first_deposit_date |-> Min({t.updated_at : t \in D}),
     tx_days |-> Cardinality({Date(t.updated_at) : t \in D})]

\* depositors_summary with COUNT(*) in the place of COUNT(DISTINCT transaction_date)
DepositorSummaryCountAll(L, D) ==
    [deposit_count |-> CountRows(L, D),
     first_deposit_date |-> Min({t.updated_at : t \in D}),
     tx_days |-> CountRows(L, D)]

\* one row of depositors_summary, over the deposits D of its group
DepositorSummary(L, D) ==
    [deposit_count |-> CountRows(L, D),
     first_deposit_date |-> Min({t.updated_at : t \in D}),
     tx_days |-> Cardinality({t.updated_at : t \in D})]

\* the filter of recurring depositors with >= in the place of >
IsRecurringFromOne(ds) == ds.tx_days >= 1

\* FILTER (WHERE tx_days > 1)
IsRecurring(ds) == ds.tx_days > 1

\* FILTER (WHERE tx_days = 1 AND DATE(first_deposit_date) BETWEEN :start_date AND :end_date)
IsNew(ds, start_date, end_date) ==
    ds.tx_days = 1 /\ Between(Date(ds.first_deposit_date), start_date, end_date)

(***************************************************************************)
(* load_general_metrics: the query.                                        *)
(***************************************************************************)
\* depositors_summary ... GROUP BY customer_id
general_depositors_summary(L) ==
    [c \in {customer_id(t) : t \in deposits(L)} |->
        DepositorSummary(L, {t \in deposits(L) : customer_id(t) = c})]

general_query(L, start_date, end_date) ==
    LET W   == WindowRows(L, start_date, end_date)
        ds  == general_depositors_summary(L)
        \* LEFT JOIN depositors_summary ds USING (customer_id)
        J   == {t \in W : customer_id(t) \in DOMAIN ds}
        dep == {t \in W : transaction_type(t) = "deposit"}
        wd  == {t \in W : transaction_type(t) = "withdrawal"}
    IN  [asset_type_count |-> Cardinality({asset_type(t) : t \in W} \ {NULL}),
         deposit_count |-> CountRows(L, dep),
         deposit_value_ghs |-> SumGhs(L, dep),
         deposit_value_usd |-> SumUsd(L, dep),
         withdrawal_count |-> CountRows(L, wd),
         withdrawal_value_ghs |-> SumGhs(L, wd),
         withdrawal_value_usd |-> SumUsd(L, wd),
         aum_ghs |-> Aum(SumGhs(L, dep), SumGhs(L, wd)),
         aum_usd |-> Aum(SumUsd(L, dep), SumUsd(L, wd)),
         total_depositors |-> Cardinality({customer_id(t) : t \in dep}),
         total_withdrawers |-> Cardinality({customer_id(t) : t \in wd}),
         recurring_depositors |->
             Cardinality({customer_id(t) : t \in {r \in J : IsRecurring(ds[customer_id(r)])}}),
         new_depositors |->
             Cardinality({customer_id(t) :
                 t \in {r \in J : IsNew(ds[customer_id(r)], start_date, end_date)}}),
         avg_deposit_value_ghs |-> Avg(SumGhs(L, dep), CountRows(L, dep)),
         avg_deposit_value_usd |-> Avg(SumUsd(L, dep), CountRows(L, dep)),
         avg_withdrawal_value_ghs |-> Avg(SumGhs(L, wd), CountRows(L, wd)),
         avg_withdrawal_value_usd |-> Avg(SumUsd(L, wd), CountRows(L, wd))]

(***************************************************************************)
(* load_asset_metrics: the query.                                          *)
(***************************************************************************)
\* depositors_summary ... GROUP BY customer_id, asset_type
asset_depositors_summary(L) ==
    [k \in {<<customer_id(t), asset_type(t)>> : t \in deposits(L)} |->
        DepositorSummary(L,
            {t \in deposits(L) : customer_id(t) = k[1] /\ asset_type(t) = k[2]})]

\* ON ds.customer_id = bd.customer_id AND ds.asset_type = bd.asset_type
AssetJoined(L, t) ==
    /\ asset_type(t) # NULL
    /\ <<customer_id(t), asset_type(t)>> \in DOMAIN asset_depositors_summary(L)

\* GROUP BY bd.asset_type: the keys of the groups
AssetGroups(W) == {asset_type(t) : t \in W}

\* the fee schedule with the yearly rate of the two savings products applied
\* to the deposits without the division by 12
EstimatedRevenueYearly(g, dep_ghs, wd_ghs, dep_usd) ==
    IF g \in {Some("Ladder Lock"), Some("goal savings")}
    THEN <<6 * Coalesce(dep_usd, Some(0))[1], 100>>
    ELSE <<0, 1>>

\* the fee schedule with the label compared without regard to letter case
EstimatedRevenueAnyCase(g, dep_ghs, wd_ghs, dep_usd) ==
    IF g \in {Some("Ladder Lock"), Some("ladder lock")}
    THEN <<6 * Coalesce(dep_usd, Some(0))[1], 1200>>
    ELSE <<0, 1>>

\* the fee schedule of estimated_revenue, as a fraction <<numerator, denominator>>
EstimatedRevenue(g, dep_ghs, wd_ghs, dep_usd) ==
    LET ghs(x) == Coalesce(x, Some(0))[1]
    IN  CASE g = Some("Arbitrage") -> <<1 * (ghs(dep_ghs) + ghs(wd_ghs)), 100>>
          [] g = Some("flex dollar savings") -> <<475 * ghs(dep_usd), 120000>>
          [] g = Some("Ladder Lock") -> <<6 * ghs(dep_usd), 1200>>
          [] g = Some("goal savings") -> <<6 * ghs(dep_usd), 1200>>
          [] g = Some("Risevest fixed income") -> <<2 * ghs(dep_usd), 1200>>
          [] g = Some("Risevest real estate") -> <<4 * ghs(dep_usd), 1200>>
          [] g = Some("Equity") -> <<2 * ghs(dep_ghs), 100>>
          [] g = Some("Mutual funds") -> <<2 * ghs(dep_ghs), 100>>
          [] g = Some("ETFs") -> <<2 * ghs(dep_usd), 100>>
          [] OTHER -> <<0, 1>>

\* the row of asset_metrics for the group g
asset_metrics_row(L, g, start_date, end_date) ==
    LET W   == {t \in WindowRows(L, start_date, end_date) : asset_type(t) = g}
        ds  == asset_depositors_summary(L)
        key(t) == <<customer_id(t), asset_type(t)>>
        J   == {t \in W : AssetJoined(L, t)}
        dep == {t \in W : transaction_type(t) = "deposit"}
        wd  == {t \in W : transaction_type(t) = "withdrawal"}
        fee == {t \in W : transaction_type(t) = "maintenance_fee"}
        ew  == {t \in W : transaction_type(t) = "early_withdrawal"}
    IN  [asset_type |-> g,
         deposit_count |-> CountRows(L, dep),
         deposit_value_ghs |-> SumGhs(L, dep),
         deposit_value_usd |-> SumUsd(L, dep),
         withdrawal_count |-> CountRows(L, wd),
         withdrawal_value_ghs |-> SumGhs(L, wd),
         withdrawal_value_usd |-> SumUsd(L, wd),
         aum_ghs |-> Aum(SumGhs(L, dep), SumGhs(L, wd)),
         aum_usd |-> Aum(SumUsd(L, dep), SumUsd(L, wd)),
         total_depositors |-> Cardinality({customer_id(t) : t \in dep}),
         recurring_depositors |->
             Cardinality({customer_id(t) : t \in {r \in J : IsRecurring(ds[key(r)])}}),
         new_depositors |->
             Cardinality({customer_id(t) :
                 t \in {r \in J : IsNew(ds[key(r)], start_date, end_date)}}),
         avg_deposit_value_ghs |-> Avg(SumGhs(L, dep), CountRows(L, dep)),
         avg_deposit_value_usd |-> Avg(SumUsd(L, dep), CountRows(L, dep)),
         avg_withdrawal_value_ghs |-> Avg(SumGhs(L, wd), CountRows(L, wd)),
         avg_withdrawal_value_usd |-> Avg(SumUsd(L, wd), CountRows(L, wd)),
         estimated_revenue |->
             EstimatedRevenue(g, SumGhs(L, dep), SumGhs(L, wd), SumUsd(L, dep)),
         maintenance_fees_ghs |-> SumGhs(L, fee),
         early_withdrawal_fees_usd |->
             IF ew = {} THEN NULL ELSE Some(<<25 * SumUsd(L, ew)[1], 1000>>)]

\* the rows of asset_metrics, one per group
asset_metrics(L, start_date, end_date) ==
    {asset_metrics_row(L, g, start_date, end_date) :
        g \in AssetGroups(WindowRows(L, start_date, end_date))}

(***************************************************************************)
(* The loaders: the query inside try/except, the result as a DataFrame.    *)
(* A DataFrame is [columns, rows]: pd.DataFrame() has neither columns nor  *)
(* rows, the result of a query has the query's columns.                    *)
(***************************************************************************)
DataFrame(rows) == [columns |-> TRUE, rows |-> rows]

\* pd.DataFrame()
EmptyDataFrame == [columns |-> FALSE, rows |-> <<>>]

\* df.empty
IsEmpty(df) == Len(df.rows) = 0

\* the sequences that list every element of the set S once
Orderings(S) ==
    {f \in [1..Cardinality(S) -> S] : \A i, j \in DOMAIN f : i # j => f[i] # f[j]}

\* a before b under ORDER BY ... DESC NULLS LAST
DescNullsLast(a, b) == b = NULL \/ (a # NULL /\ a[1] >= b[1])

\* the results load_general_metrics can return; ok: the data source answers
load_general_metrics(L, start_date, end_date, ok) ==
    IF ok THEN {DataFrame(<<general_query(L, start_date, end_date)>>)}
    ELSE {EmptyDataFrame}

\* the results load_asset_metrics can return: asset_metrics in every order
\* ORDER BY deposit_value_usd DESC NULLS LAST allows
load_asset_metrics(L, start_date, end_date, ok) ==
    IF ok
    THEN {DataFrame(f) : f \in
            {g \in Orderings(asset_metrics(L, start_date, end_date)) :
                \A i, j \in DOMAIN g :
                    i < j => DescNullsLast(g[i].deposit_value_usd, g[j].deposit_value_usd)}}
    ELSE {EmptyDataFrame}

(***************************************************************************)
(* fmt and fmt_int.  A value is NULL (None, NaN) or Some(<<n, d>>), the     *)
(* number n / d; fmt_int takes NULL or Some(i), an integer.                *)
(***************************************************************************)
\* a sum or a count of a row as a number n / 1
Exact(x) == IF x = NULL THEN NULL ELSE Some(<<x[1], 1>>)

Abs(x) == IF x < 0 THEN -x ELSE x

\* n / d rounded to an integer, a tie to the even neighbour (n >= 0, d > 0)
RoundHalfEven(n, d) ==
    LET q == n \div d
        r == n % d
    IN  IF 2 * r < d THEN q
        ELSE IF 2 * r > d THEN q + 1
        ELSE q + (q % 2)

\* the three digits of a group after a comma
ThreeDigits(n) ==
    (IF n < 10 THEN "00" ELSE IF n < 100 THEN "0" ELSE "") \o ToString(n)

\* format specifier ',': the digits of n >= 0 in groups of three
RECURSIVE Commas(_)
Commas(n) ==
    IF n < 1000 THEN ToString(n)
    ELSE Commas(n \div 1000) \o "," \o ThreeDigits(n % 1000)

\* fmt without the test for an absent value: f"{nan:,.2f}"
fmtWithoutNullTest(val) == IF val = NULL THEN "nan" ELSE "0.00"

\* f"{val:,.2f}" if pd.notnull(val) and val is not None else "0.00"
fmt(val) ==
    IF val = NULL THEN "0.00"
    ELSE LET n == val[1][1]
             cents == RoundHalfEven(100 * Abs(n), val[1][2])
         IN  (IF n < 0 THEN "-" ELSE "") \o Commas(cents \div 100) \o "." \o
             (IF cents % 100 < 10 THEN "0" ELSE "") \o ToString(cents % 100)

\* f"{int(val):,}" if pd.notnull(val) and val is not None else "0"
fmt_int(val) ==
    IF val = NULL THEN "0"
    ELSE (IF val[1] < 0 THEN "-" ELSE "") \o Commas(Abs(val[1]))

(***************************************************************************)
(* load_transaction_trend, load_total_users_by_asset_type, get_asset_types *)
(***************************************************************************)
\* the calendar: day 0 is Sunday 2024-03-31, day d (1..30) is 2024-04-d
Weekday(d) == (d + 6) % 7

DayOfMonth(d) == IF d = 0 THEN 31 ELSE d

Granularities == {"day", "week", "month"}

\* DATE_TRUNC(:granularity, ts): the timestamp that starts the period of ts
DateTrunc(granularity, ts) ==
    CASE granularity = "day" -> Midnight(Date(ts))
      [] granularity = "week" -> Midnight(Date(ts) - Weekday(Date(ts)))
      [] granularity = "month" -> Midnight(Date(ts) - (DayOfMonth(Date(ts)) - 1))

\* the column load_transaction_trend groups by, next to the period
trend_type(t) == t.tx_type

\* WHERE t.status = 'success' AND u.restricted = false
\*   AND t.provider_number != 'Flex Dollar' AND t.updated_at BETWEEN ...
TrendRows(L, start_date, end_date) ==
    {t \in BagToSet(L) : InBaseData(t) /\ InWindow(t, start_date, end_date)}

\* GROUP BY period, t.tx_type
trend_query(L, start_date, end_date, granularity) ==
    LET W == TrendRows(L, start_date, end_date)
        key(t) == <<DateTrunc(granularity, t.updated_at), trend_type(t)>>
    IN  {[period |-> k[1], tx_type |-> k[2],
          total_amount |-> SumGhs(L, {t \in W : key(t) = k})] :
            k \in {key(t) : t \in W}}

\* the results load_transaction_trend can return: ORDER BY period ASC
load_transaction_trend(L, start_date, end_date, granularity, ok) ==
    IF ok
    THEN {DataFrame(f) : f \in
            {g \in Orderings(trend_query(L, start_date, end_date, granularity)) :
                \A i, j \in DOMAIN g : i < j => g[i].period <= g[j].period}}
    ELSE {EmptyDataFrame}

\* load_total_users_by_asset_type: GROUP BY asset_type over the labelled rows
users_by_asset_query(L, start_date, end_date) ==
    LET W == {t \in BagToSet(L) :
                /\ InBaseData(t)
                /\ InWindow(t, start_date, end_date)
                /\ asset_type(t) # NULL}
    IN  {[asset_type |-> g,
          total_users |-> Cardinality({customer_id(t) : t \in {r \in W : asset_type(r) = g}})] :
            g \in {asset_type(t) : t \in W}}

\* the results load_total_users_by_asset_type can return: ORDER BY total_users DESC
load_total_users_by_asset_type(L, start_date, end_date, ok) ==
    IF ok
    THEN {DataFrame(f) : f \in
            {g \in Orderings(users_by_asset_query(L, start_date, end_date)) :
                \A i, j \in DOMAIN g : i < j => g[i].total_users >= g[j].total_users}}
    ELSE {EmptyDataFrame}

\* get_asset_types: SELECT DISTINCT asset_type ... WHERE t.status = 'success'
\*   AND t.updated_at BETWEEN ... AND asset_type IS NOT NULL
asset_types_query(L, start_date, end_date) ==
    {asset_type(t) : t \in {r \in BagToSet(L) :
        /\ r.status = "success"
        /\ InWindow(r, start_date, end_date)
        /\ asset_type(r) # NULL}}

\* the lists get_asset_types can return: ORDER BY asset_type is the order of
\* the database's collation, which the program does not fix
get_asset_types(L, start_date, end_date, ok) ==
    IF ok
    THEN {[i \in DOMAIN f |-> f[i][1]] :
            f \in Orderings(asset_types_query(L, start_date, end_date))}
    ELSE {<<>>}

(***************************************************************************)
(* load_user_counts and load_user_insights.                                *)
(***************************************************************************)
\* metadata::text ILIKE '%kyc_completed%'
ILikeKycCompleted(m) == Lower(m) \in {"{\"kyc_completed\": true}"}

\* DATE(x) BETWEEN :start_date AND :end_date
DateInWindow(ts, start_date, end_date) == Between(Date(ts), start_date, end_date)

\* x BETWEEN '{start_date}' AND '{end_date}', x a timestamp
StampInWindow(ts, start_date, end_date) ==
    Between(ts, Midnight(start_date), Midnight(end_date))

\* (registered_users, kyc_users)
user_counts_query(start_date, end_date) ==
    <<Cardinality({u \in DOMAIN users :
          DateInWindow(users[u].created_at, start_date, end_date)}),
      Cardinality({u \in DOMAIN users :
          /\ ILikeKycCompleted(users[u].metadata)
          /\ DateInWindow(users[u].updated_at, start_date, end_date)})>>

\* the result of load_user_counts: (0, 0) when the data source fails
load_user_counts(start_date, end_date, ok) ==
    IF ok THEN {user_counts_query(start_date, end_date)} ELSE {<<0, 0>>}

\* active_users: the UNION of the user ids of the five sources
active_users(L, start_date, end_date) ==
    {Some(b.user_id) : b \in {x \in budgets :
        StampInWindow(x.created_at, start_date, end_date)}} \cup
    {Some(m.user_id) : m \in {x \in manual_and_external_transactions :
        StampInWindow(x.created_at, start_date, end_date)}} \cup
    {Some(investment_plans[i].user_id) : i \in {x \in DOMAIN investment_plans :
        StampInWindow(investment_plans[x].created_at, start_date, end_date)}} \cup
    {Some(plans[i].user_id) : i \in {x \in DOMAIN plans :
        StampInWindow(plans[x].created_at, start_date, end_date)}} \cup
    {customer_id(t) : t \in {x \in BagToSet(L) :
        x.status = "success" /\ StampInWindow(x.updated_at, start_date, end_date)}}

\* recent_activity
recent_activity(start_date, end_date) ==
    {u \in DOMAIN users :
        /\ users[u].most_recent_activity # NULL
        /\ DateInWindow(users[u].most_recent_activity[1], start_date, end_date)}

\* the rows of the user insights query
user_insights_query(L, start_date, end_date) ==
    {[user_id |-> u,
      is_recent |-> u \in recent_activity(start_date, end_date),
      is_active |-> Some(u) \in active_users(L, start_date, end_date)] :
        u \in {x \in DOMAIN users :
                 StampInWindow(users[x].created_at, start_date, end_date)}}

\* the results load_user_insights can return: the query has no ORDER BY
load_user_insights(L, start_date, end_date, ok) ==
    IF ok
    THEN {DataFrame(f) : f \in Orderings(user_insights_query(L, start_date, end_date))}
    ELSE {EmptyDataFrame}

(***************************************************************************)
(* The ledger and the loader calls.                                        *)
(***************************************************************************)
\* the transactions with the given column values
Transactions(types, metas, statuses, providers, links, stamps, ghs, usd) ==
    {[tx_type |-> ty, metadata |-> m, status |-> st, provider_number |-> pr,
      plan_id |-> l[1], investment_plan_id |-> l[2], updated_at |-> ts,
      amount |-> a, usd_amount |-> u] :
        ty \in types, m \in metas, st \in statuses, pr \in providers,
        l \in links, ts \in stamps, a \in ghs, u \in usd}

\* <<plan_id, investment_plan_id>> of a transaction
PlanLink(p) == <<Some(p), NULL>>

InvestmentLink(i) == <<NULL, Some(i)>>

NoLink == <<NULL, NULL>>

\* deposits and withdrawals of two customers in two asset types, at every time
CohortInputs ==
    Transactions({"deposit", "withdrawal"}, {"{}"}, {"success"}, {"MTN"},
                 {PlanLink(1), InvestmentLink(1), InvestmentLink(2)},
                 Timestamps, {10}, {3})

\* marked and unmarked deposits and withdrawals of several amounts, with and
\* without an asset-type label
SumsInputs ==
    Transactions({"deposit", "withdrawal"}, MetadataTexts, {"success"}, {"MTN"},
                 {PlanLink(1), PlanLink(2)}, {Midnight(0), Midnight(MaxDay)}, {10, 20}, {3})

\* transactions on either side of each condition of the inclusion predicate
InclusionInputs ==
    Transactions({"deposit", "withdrawal"}, {"{}"}, {"success", "failed"},
                 {"MTN", "Flex Dollar"}, {PlanLink(1), PlanLink(3), NoLink},
                 {Midnight(0)}, {10}, {3})

\* marked and unmarked deposits and withdrawals of one customer, at every time
TrendInputs ==
    Transactions({"deposit", "withdrawal"}, MetadataTexts, {"success"}, {"MTN"},
                 {PlanLink(1)}, Timestamps, {10}, {3})

\* deposits and withdrawals in every asset type of the plans 4, 5, ..., of a
\* small and of a large amount in USD
FeeInputs ==
    Transactions({"deposit", "withdrawal"}, {"{}"}, {"success"}, {"MTN"},
                 {PlanLink(i) : i \in 4..(3 + Len(PlanOptions))} \cup {PlanLink(2)},
                 {Midnight(0)}, {10}, {3, 12000})

\* transactions of a customer with no other activity, of a restricted
\* customer and of a customer with a plan, on either side of each condition
UserInputs ==
    Transactions({"deposit"}, {"{}"}, {"success", "failed"}, {"MTN", "Flex Dollar"},
                 {InvestmentLink(3), PlanLink(3), PlanLink(1)}, Timestamps, {10}, {3})

NoCall == [loader |-> "none"]

NoRun == [pc |-> "idle"]

Init ==
    /\ ledger = EmptyBag
    /\ call = NoCall
    /\ store_ok = TRUE
    /\ cache = {}
    /\ run = NoRun
    /\ runs = 0

\* a transaction reaches the ledger (the dashboard only reads it); a query
\* reads one snapshot of the ledger, so no transaction arrives inside a call
AddTransaction(inputs) ==
    /\ call = NoCall
    /\ BagCardinality(ledger) < MaxTx
    /\ \E t \in inputs : ledger' = ledger (+) SetToBag({t})
    /\ UNCHANGED <<call, pageVars>>

\* the caller is done with the DataFrame of the last call
EndCall ==
    /\ call # NoCall
    /\ call' = NoCall
    /\ UNCHANGED <<ledger, pageVars>>

LoadGeneralMetrics ==
    /\ call = NoCall
    /\ \E w \in Windows :
           \E df \in load_general_metrics(ledger, w[1], w[2], TRUE) :
               /\ call' = [loader |-> "load_general_metrics",
                           start_date |-> w[1], end_date |-> w[2], df |-> df]
               /\ UNCHANGED <<ledger, pageVars>>

LoadAssetMetrics ==
    /\ call = NoCall
    /\ \E w \in Windows :
           \E df \in load_asset_metrics(ledger, w[1], w[2], TRUE) :
               /\ call' = [loader |-> "load_asset_metrics",
                           start_date |-> w[1], end_date |-> w[2], df |-> df]
               /\ UNCHANGED <<ledger, pageVars>>

LoadTransactionTrend ==
    /\ call = NoCall
    /\ \E w \in Windows, granularity \in Granularities :
           \E df \in load_transaction_trend(ledger, w[1], w[2], granularity, TRUE) :
               /\ call' = [loader |-> "load_transaction_trend",
                           start_date |-> w[1], end_date |-> w[2],
                           granularity |-> granularity, df |-> df]
               /\ UNCHANGED <<ledger, pageVars>>

LoadTotalUsersByAssetType ==
    /\ call = NoCall
    /\ \E w \in Windows :
           \E df \in load_total_users_by_asset_type(ledger, w[1], w[2], TRUE) :
               /\ call' = [loader |-> "load_total_users_by_asset_type",
                           start_date |-> w[1], end_date |-> w[2], df |-> df]
               /\ UNCHANGED <<ledger, pageVars>>

\* the cohort queries over deposits and withdrawals at every time
Next ==
    \/ AddTransaction(CohortInputs)
    \/ LoadGeneralMetrics
    \/ LoadAssetMetrics
    \/ EndCall

Spec == Init /\ [][Next]_vars

\* the sums over marked and unmarked, labelled and unlabelled transactions
NextSums ==
    \/ AddTransaction(SumsInputs)
    \/ LoadGeneralMetrics
    \/ LoadAssetMetrics
    \/ EndCall

SpecSums == Init /\ [][NextSums]_vars

\* every loader over transactions that pass or fail the inclusion predicate
NextInclusion ==
    \/ AddTransaction(InclusionInputs)
    \/ LoadGeneralMetrics
    \/ LoadAssetMetrics
    \/ LoadTransactionTrend
    \/ LoadTotalUsersByAssetType
    \/ EndCall

SpecInclusion == Init /\ [][NextInclusion]_vars

\* asset_types = get_asset_types(start_date, end_date)
GetAssetTypes ==
    /\ call = NoCall
    /\ \E w \in Windows :
           \E asset_types \in get_asset_types(ledger, w[1], w[2], TRUE) :
               /\ call' = [loader |-> "get_asset_types",
                           start_date |-> w[1], end_date |-> w[2], df |-> asset_types]
               /\ UNCHANGED <<ledger, pageVars>>

\* the selector's asset types and the asset metrics over transactions that
\* pass or fail the inclusion predicate
NextAssetTypes ==
    \/ AddTransaction(InclusionInputs)
    \/ GetAssetTypes
    \/ LoadAssetMetrics
    \/ EndCall

SpecAssetTypes == Init /\ [][NextAssetTypes]_vars

\* the trend over marked and unmarked transactions at every time
NextTrend ==
    \/ AddTransaction(TrendInputs)
    \/ LoadTransactionTrend
    \/ EndCall

SpecTrend == Init /\ [][NextTrend]_vars

LoadUserInsights ==
    /\ call = NoCall
    /\ \E w \in Windows :
           \E df \in load_user_insights(ledger, w[1], w[2], TRUE) :
               /\ call' = [loader |-> "load_user_insights",
                           start_date |-> w[1], end_date |-> w[2], df |-> df]
               /\ UNCHANGED <<ledger, pageVars>>

\* load_user_insights over the transactions of three customers
NextUsers ==
    \/ AddTransaction(UserInputs)
    \/ LoadUserInsights
    \/ EndCall

SpecUsers == Init /\ [][NextUsers]_vars

\* load_general_metrics and load_asset_metrics over transactions that pass
\* or fail the inclusion predicate, at every time
NextFirst ==
    \/ AddTransaction(UserInputs)
    \/ LoadGeneralMetrics
    \/ LoadAssetMetrics
    \/ EndCall

SpecFirst == Init /\ [][NextFirst]_vars

\* load_asset_metrics over every asset type of the fee schedule and beyond
NextFees ==
    \/ AddTransaction(FeeInputs)
    \/ LoadAssetMetrics
    \/ EndCall

SpecFees == Init /\ [][NextFees]_vars

(***************************************************************************)
(* The pages.  Every interaction re-runs the script; a run executes one    *)
(* page, calling its loaders in order.  st.cache_data keeps what a loader  *)
(* returned, under the loader and its arguments.                           *)
(***************************************************************************)
Pages == {"General Overview", "Asset Breakdown", "User Information"}

\* two deposits of two customers in one asset type each
PageInputs ==
    Transactions({"deposit"}, {"{}"}, {"success"}, {"MTN"},
                 {PlanLink(1), InvestmentLink(1)}, {Midnight(0)}, {10}, {3})

\* the date ranges of the runs: from the first day to any day
PageWindows == {w \in Windows : w[1] = 0}

\* the entries of the cache for a loader and its arguments
CacheHits(fn, start_date, end_date) ==
    {c \in cache : c.fn = fn /\ c.start_date = start_date /\ c.end_date = end_date}

\* A call of a loader under st.cache_data from the running page: the value
\* stored for the arguments if there is one, otherwise one of the results of
\* the body, which is stored.  The value is bound to the local variable.
CachedCall(fn, variable, results, next_pc) ==
    LET hits == CacheHits(fn, run.start_date, run.end_date)
    IN  IF hits # {}
        THEN /\ \E c \in hits :
                  run' = [run EXCEPT !.pc = next_pc,
                                     !.locals = (variable :> c.value) @@ @]
             /\ UNCHANGED cache
        ELSE \E value \in results :
               /\ run' = [run EXCEPT !.pc = next_pc,
                                     !.locals = (variable :> value) @@ @,
                                     !.raised = IF store_ok THEN @ ELSE @ \cup {fn}]
               /\ cache' = cache \cup {[fn |-> fn, start_date |-> run.start_date,
                                        end_date |-> run.end_date, value |-> value]}

\* the first statement of each page
FirstStep(page) ==
    CASE page = "General Overview" -> "load_general_metrics"
      [] page = "Asset Breakdown" -> "get_asset_types"
      [] page = "User Information" -> "load_user_insights"

\* the user picks a page and a date range: the script runs
StartRun ==
    /\ run.pc \in {"idle", "done", "exception"}
    /\ runs < MaxRuns
    /\ runs' = runs + 1
    /\ \E page \in Pages, w \in PageWindows :
           run' = [page |-> page, pc |-> FirstStep(page),
                   start_date |-> w[1], end_date |-> w[2],
                   locals |-> <<>>, shown |-> {}, raised |-> {}]
    /\ UNCHANGED <<ledger, call, store_ok, cache>>

\* the data source becomes unreachable
StoreFails ==
    /\ store_ok
    /\ store_ok' = FALSE
    /\ UNCHANGED <<ledger, call, cache, run, runs>>

\* the data source is reachable again
StoreRecovers ==
    /\ ~store_ok
    /\ store_ok' = TRUE
    /\ UNCHANGED <<ledger, call, cache, run, runs>>

\* General Overview: general_df = load_general_metrics(start_date, end_date)
RunGeneralMetrics ==
    /\ run.pc = "load_general_metrics"
    /\ CachedCall("load_general_metrics", "general_df",
                  load_general_metrics(ledger, run.start_date, run.end_date, store_ok),
                  "load_user_counts")
    /\ UNCHANGED <<ledger, call, store_ok, runs>>

\* registered_users, kyc_users = load_user_counts(start_date, end_date)
RunUserCounts ==
    /\ run.pc = "load_user_counts"
    /\ CachedCall("load_user_counts", "user_counts",
                  load_user_counts(run.start_date, run.end_date, store_ok),
                  "general_kpis")
    /\ UNCHANGED <<ledger, call, store_ok, runs>>

\* if not general_df.empty: the indicators, among them the user counts
RenderGeneral ==
    /\ run.pc = "general_kpis"
    /\ ~IsEmpty(run.locals["general_df"])
    /\ run' = [run EXCEPT !.pc = "load_transaction_trend",
                          !.shown = @ \cup {"general_metrics", "user_counts"}]
    /\ UNCHANGED <<ledger, call, store_ok, cache, runs>>

\* general_df.empty: the page has no other statement
SkipGeneral ==
    /\ run.pc = "general_kpis"
    /\ IsEmpty(run.locals["general_df"])
    /\ run' = [run EXCEPT !.pc = "done"]
    /\ UNCHANGED <<ledger, call, store_ok, cache, runs>>

\* the granularity selectbox and load_transaction_trend, which is not cached
RunTransactionTrend ==
    /\ run.pc = "load_transaction_trend"
    /\ \E granularity_option \in Granularities :
         \E trend_df \in load_transaction_trend(ledger, run.start_date, run.end_date,
                                                granularity_option, store_ok) :
           run' = [run EXCEPT !.pc = "trend_chart",
                              !.locals = ("trend_df" :> trend_df) @@ @,
                              !.raised = IF store_ok THEN @
                                         ELSE @ \cup {"load_transaction_trend"}]
    /\ UNCHANGED <<ledger, call, store_ok, cache, runs>>

\* the chart, or the notice that there is no trend data
RenderTrend ==
    /\ run.pc = "trend_chart"
    /\ run' = [run EXCEPT !.pc = "done",
                          !.shown = @ \cup (IF IsEmpty(run.locals["trend_df"])
                                            THEN {"trend_info"} ELSE {"trend_chart"})]
    /\ UNCHANGED <<ledger, call, store_ok, cache, runs>>

\* Asset Breakdown: asset_types = get_asset_types(start_date, end_date)
RunAssetTypes ==
    /\ run.pc = "get_asset_types"
    /\ CachedCall("get_asset_types", "asset_types",
                  get_asset_types(ledger, run.start_date, run.end_date, store_ok),
                  "selectbox")
    /\ UNCHANGED <<ledger, call, store_ok, runs>>

\* st.selectbox(..., asset_types): one of the options, None when there is none
SelectAssetType ==
    /\ run.pc = "selectbox"
    /\ LET asset_types == run.locals["asset_types"]
       IN  \E selected_asset_type \in
                 IF asset_types = <<>> THEN {NULL}
                 ELSE {Some(asset_types[i]) : i \in DOMAIN asset_types} :
             run' = [run EXCEPT !.pc = "load_asset_metrics",
                                !.locals = ("selected_asset_type" :> selected_asset_type) @@ @]
    /\ UNCHANGED <<ledger, call, store_ok, cache, runs>>

\* asset_df = load_asset_metrics(start_date, end_date)
RunAssetMetrics ==
    /\ run.pc = "load_asset_metrics"
    /\ CachedCall("load_asset_metrics", "asset_df",
                  load_asset_metrics(ledger, run.start_date, run.end_date, store_ok),
                  "load_total_users_by_asset_type")
    /\ UNCHANGED <<ledger, call, store_ok, runs>>

\* users_by_asset_df = load_total_users_by_asset_type(start_date, end_date)
RunUsersByAsset ==
    /\ run.pc = "load_total_users_by_asset_type"
    /\ CachedCall("load_total_users_by_asset_type", "users_by_asset_df",
                  load_total_users_by_asset_type(ledger, run.start_date, run.end_date, store_ok),
                  "asset_row")
    /\ UNCHANGED <<ledger, call, store_ok, runs>>

\* df[df['asset_type'] == selected]: the rows of the selected asset type; a
\* comparison with None is False in every row
RowsOfType(df, selected) ==
    SelectSeq(df.rows, LAMBDA r : selected # NULL /\ r.asset_type = selected)

\* df['asset_type'] on a DataFrame without columns raises KeyError, which
\* nothing catches: the run ends there
RaiseKeyError ==
    /\ run.pc = "asset_row"
    /\ \/ ~run.locals["asset_df"].columns
       \/ ~run.locals["users_by_asset_df"].columns
    /\ run' = [run EXCEPT !.pc = "exception"]
    /\ UNCHANGED <<ledger, call, store_ok, cache, runs>>

\* the metrics of the selected asset type with its total users, or the notice
\* that there is no data
RenderAsset ==
    /\ run.pc = "asset_row"
    /\ run.locals["asset_df"].columns
    /\ run.locals["users_by_asset_df"].columns
    /\ LET selected == run.locals["selected_asset_type"]
           asset_row == RowsOfType(run.locals["asset_df"], selected)
           users_row == RowsOfType(run.locals["users_by_asset_df"], selected)
       IN  run' = [run EXCEPT
                     !.pc = "done",
                     !.shown = @ \cup
                        (IF asset_row = <<>> THEN {"asset_info"}
                         ELSE {"asset_metrics"} \cup
                              (IF users_row = <<>> THEN {} ELSE {"total_users"}))]
    /\ UNCHANGED <<ledger, call, store_ok, cache, runs>>

\* User Information: df = load_user_insights(start_date, end_date)
RunUserInsights ==
    /\ run.pc = "load_user_insights"
    /\ CachedCall("load_user_insights", "df",
                  load_user_insights(ledger, run.start_date, run.end_date, store_ok),
                  "user_metrics")
    /\ UNCHANGED <<ledger, call, store_ok, runs>>

\* the warning that there is no user data, or the user metrics and charts
RenderUsers ==
    /\ run.pc = "user_metrics"
    /\ run' = [run EXCEPT !.pc = "done",
                          !.shown = @ \cup (IF IsEmpty(run.locals["df"])
                                            THEN {"user_warning"} ELSE {"user_metrics"})]
    /\ UNCHANGED <<ledger, call, store_ok, cache, runs>>

\* the runs of the three pages over a store that fails and recovers
NextPage ==
    \/ AddTransaction(PageInputs)
    \/ StoreFails
    \/ StoreRecovers
    \/ StartRun
    \/ RunGeneralMetrics
    \/ RunUserCounts
    \/ RenderGeneral
    \/ SkipGeneral
    \/ RunTransactionTrend
    \/ RenderTrend
    \/ RunAssetTypes
    \/ SelectAssetType
    \/ RunAssetMetrics
    \/ RunUsersByAsset
    \/ RaiseKeyError
    \/ RenderAsset
    \/ RunUserInsights
    \/ RenderUsers

SpecPage == Init /\ [][NextPage]_vars

(***************************************************************************)
(* The sidebar: the quick date filter and the two custom date inputs give  *)
(* the (start_date, end_date) every loader of the run is called with.      *)
(* Dates are day numbers, day 0 being 2024-03-31.                          *)
(***************************************************************************)
\* date(2022, 1, 1)
LaunchDay == 0 - 820

\* the values of date.today(): the days from 2024-03-31 on and the days from
\* 2022-01-01 on
Todays == (0..MaxToday) \cup {LaunchDay + d : d \in 0..MaxToday}

\* the first days of the months around the values of today: 2021-12-01 to
\* 2022-03-01 and 2024-02-01 to 2024-06-01
MonthStarts ==
    {LaunchDay - 31, LaunchDay, LaunchDay + 31, LaunchDay + 59, 0 - 59, 0 - 30, 1, 31, 62}

\* d.replace(day=1)
FirstOfMonth(d) ==
    CHOOSE m \in MonthStarts : m <= d /\ \A n \in MonthStarts : n <= d => n <= m

date_options ==
    {"Today", "Past 7 Days", "Last 14 Days", "This Week", "Last Week",
     "Last 30 Days", "Last Month", "All Time"}

\* <<start, end>> of the quick filter
get_date_range(option, today) ==
    CASE option = "Today" -> <<today, today>>
      [] option = "Past 7 Days" -> <<today - 6, today>>
      [] option = "Last 14 Days" -> <<today - 13, today>>
      [] option = "This Week" ->
            <<IF Weekday(today) # 6 THEN today - (Weekday(today) + 1) ELSE today, today>>
      [] option = "Last Week" ->
            <<today - (Weekday(today) + 1) - 6, today - (Weekday(today) + 1)>>
      [] option = "Last 30 Days" -> <<today - 29, today>>
      [] option = "Last Month" ->
            <<FirstOfMonth(FirstOfMonth(today) - 1), FirstOfMonth(today) - 1>>
      [] option = "All Time" -> <<LaunchDay, today>>

\* st.date_input raises when its default value lies outside
\* [min_value, max_value]
DateInputRaises(value, min_value, max_value) ==
    value < min_value \/ value > max_value

\* a date input that takes any date, whatever min_value and max_value are
DateInputUnbounded(value, min_value, max_value) ==
    {value, min_value, max_value, value - 1, value + 1, min_value - 1, max_value + 1}

\* the dates st.date_input can return: the default value or a date the user
\* picks from min_value to max_value (here the ends of the range and the
\* neighbours of the default)
DateInput(value, min_value, max_value) ==
    {d \in {value, min_value, max_value, value - 1, value + 1} :
        min_value <= d /\ d <= max_value}

\* the sidebar of a run: the dates the loaders will be called with
SidebarDates ==
    /\ run = NoRun
    /\ \E today \in Todays, date_choice \in date_options :
         LET range == get_date_range(date_choice, today)
         IN  /\ ~DateInputRaises(range[1], LaunchDay, today)
             /\ \E custom_start \in DateInput(range[1], LaunchDay, today) :
                  /\ ~DateInputRaises(range[2], custom_start, today)
                  /\ \E custom_end \in DateInput(range[2], custom_start, today) :
                       run' = [pc |-> "dates", today |-> today,
                               date_choice |-> date_choice,
                               start_date |-> custom_start, end_date |-> custom_end]
    /\ UNCHANGED <<ledger, call, store_ok, cache, runs>>

\* a date input raises: the run ends before any loader is called
SidebarRaises ==
    /\ run = NoRun
    /\ \E today \in Todays, date_choice \in date_options :
         LET range == get_date_range(date_choice, today)
         IN  /\ \/ DateInputRaises(range[1], LaunchDay, today)
                \/ \E custom_start \in DateInput(range[1], LaunchDay, today) :
                      DateInputRaises(range[2], custom_start, today)
             /\ run' = [pc |-> "exception", today |-> today, date_choice |-> date_choice]
    /\ UNCHANGED <<ledger, call, store_ok, cache, runs>>

\* the script run ends; the next interaction runs the script from the top
EndSidebarRun ==
    /\ run.pc \in {"dates", "exception"}
    /\ run' = NoRun
    /\ UNCHANGED <<ledger, call, store_ok, cache, runs>>

\* the runs of the sidebar for every quick filter and every today
NextDates ==
    \/ SidebarDates
    \/ SidebarRaises
    \/ EndSidebarRun

SpecDates == Init /\ [][NextDates]_vars

(***************************************************************************)
(* A loader called twice with the same arguments, with no transaction      *)
(* arriving between the two calls.                                         *)
(***************************************************************************)
Loaders ==
    {"load_general_metrics", "load_asset_metrics", "load_user_counts",
     "load_total_users_by_asset_type", "get_asset_types", "load_transaction_trend"}

\* no loader is under st.cache_data
IsCachedNever(fn) == FALSE

\* the loader is defined under @st.cache_data: all but load_transaction_trend
IsCached(fn) == fn # "load_transaction_trend"

\* the results the body of the loader can return
Results(fn, L, start_date, end_date, granularity, ok) ==
    CASE fn = "load_general_metrics" -> load_general_metrics(L, start_date, end_date, ok)
      [] fn = "load_asset_metrics" -> load_asset_metrics(L, start_date, end_date, ok)
      [] fn = "load_user_counts" -> load_user_counts(start_date, end_date, ok)
      [] fn = "load_total_users_by_asset_type" ->
            load_total_users_by_asset_type(L, start_date, end_date, ok)
      [] fn = "get_asset_types" -> get_asset_types(L, start_date, end_date, ok)
      [] fn = "load_transaction_trend" ->
            load_transaction_trend(L, start_date, end_date, granularity, ok)

\* the values a call can return: the cached value of a cached loader if
\* there is one, otherwise a result of the body
Returned(fn, start_date, end_date, granularity) ==
    IF IsCached(fn) /\ CacheHits(fn, start_date, end_date) # {}
    THEN {c.value : c \in CacheHits(fn, start_date, end_date)}
    ELSE Results(fn, ledger, start_date, end_date, granularity, store_ok)

\* the cache after a call of the loader has returned value
Stored(fn, start_date, end_date, value) ==
    IF IsCached(fn)
    THEN cache \cup {[fn |-> fn, start_date |-> start_date, end_date |-> end_date,
                      value |-> value]}
    ELSE cache

\* a deposit and a withdrawal of one customer
RepeatInputs ==
    Transactions({"deposit", "withdrawal"}, {"{}"}, {"success"}, {"MTN"},
                 {PlanLink(1)}, {Midnight(0)}, {10}, {3})

\* the granularities a call of the loader can be given: the parameter of
\* load_transaction_trend
GranularitiesOf(fn) ==
    IF fn = "load_transaction_trend" THEN Granularities ELSE {"month"}

\* a run of the script calls a loader
CallLoader ==
    /\ call = NoCall
    /\ runs < MaxRuns
    /\ runs' = runs + 1
    /\ \E fn \in Loaders, w \in PageWindows :
       \E granularity \in GranularitiesOf(fn) :
         \E value \in Returned(fn, w[1], w[2], granularity) :
           /\ call' = [loader |-> fn, start_date |-> w[1], end_date |-> w[2],
                       granularity |-> granularity, df |-> value, ok |-> store_ok,
                       calls |-> 1, first |-> value, first_ok |-> store_ok]
           /\ cache' = Stored(fn, w[1], w[2], value)
    /\ UNCHANGED <<ledger, store_ok, run>>

\* the same loader called again with the same arguments
CallAgain ==
    /\ call # NoCall
    /\ call.calls = 1
    /\ \E value \in Returned(call.loader, call.start_date, call.end_date, call.granularity) :
           /\ call' = [call EXCEPT !.df = value, !.ok = store_ok, !.calls = 2]
           /\ cache' = Stored(call.loader, call.start_date, call.end_date, value)
    /\ UNCHANGED <<ledger, store_ok, run, runs>>

\* calls and repeated calls over a store that fails and recovers
NextRepeat ==
    \/ AddTransaction(RepeatInputs)
    \/ StoreFails
    \/ StoreRecovers
    \/ CallLoader
    \/ CallAgain
    \/ EndCall

SpecRepeat == Init /\ [][NextRepeat]_vars

(***************************************************************************)
(* The claims.                                                             *)
(***************************************************************************)
\* the rows of the DataFrame of the last call, as a set
CallRows == {call.df.rows[i] : i \in DOMAIN call.df.rows}

IsGeneralCall == call.loader = "load_general_metrics"

IsAssetCall == call.loader = "load_asset_metrics"

IsTrendCall == call.loader = "load_transaction_trend"

IsUsersByAssetCall == call.loader = "load_total_users_by_asset_type"

\* the ledger's transactions with status success, a non-restricted owner and
\* a provider other than the excluded one
Qualifying == 
    {t \in BagToSet(ledger) :
        /\ t.status = "success"
        /\ t.provider_number # "Flex Dollar"
        /\ customer_id(t) # NULL
        /\ ~users[customer_id(t)[1]].restricted}

\* the metadata texts that contain the maintenance-fee marker in any case
MarkedTexts == {"{\"narration\": \"MONTHLY Maintenance Fee Deduction\"}"}

\* the transaction lies inside the window of the last call
InCallWindow(t) ==
    call.start_date * TicksPerDay <= t.updated_at /\ t.updated_at <= call.end_date * TicksPerDay

\* C1: recurring_depositors and new_depositors of load_general_metrics and of
\* each row of load_asset_metrics count only customers counted in
\* total_depositors of the same result: both counts are <= total_depositors.
C1_CohortsWithinDepositors ==
    (IsGeneralCall \/ IsAssetCall) =>
        \A r \in CallRows :
            /\ r.recurring_depositors <= r.total_depositors
            /\ r.new_depositors <= r.total_depositors

\* the distinct timestamps of the qualifying deposits of customer c that
\* satisfy Scope
DepositStamps(c, Scope(_)) ==
    {t.updated_at : t \in {d \in Qualifying :
        d.tx_type = "deposit" /\ customer_id(d) = c /\ Scope(d)}}

\* the scope of every transaction
AnyTime(t) == TRUE

\* the customers with a qualifying transaction of any type that satisfies Scope
CustomersWithRow(Scope(_)) == {customer_id(t) : t \in {q \in Qualifying : Scope(q)}}

\* no transaction of the ledger lies on the end date of the last call after
\* its midnight: the window read by dates and read by timestamps is the same
SharpWindow ==
    \A t \in BagToSet(ledger) :
        t.updated_at \div TicksPerDay = call.end_date =>
            t.updated_at = call.end_date * TicksPerDay

FirstInCallDates(stamps) ==
    \E first \in stamps :
        /\ \A x \in stamps : first <= x
        /\ call.start_date <= first \div TicksPerDay
        /\ first \div TicksPerDay <= call.end_date

Difference(dep, wd) ==
    IF dep = NULL THEN NULL ELSE <<dep[1] - (IF wd = NULL THEN 0 ELSE wd[1])>>

\* C3: for every window and every grouping (the row of load_general_metrics
\* and each row of load_asset_metrics) aum_ghs = deposit_value_ghs -
\* withdrawal_value_ghs and aum_usd = deposit_value_usd - withdrawal_value_usd,
\* an absent withdrawal sum counting as 0.
C3_AumIsDepositsMinusWithdrawals ==
    (IsGeneralCall \/ IsAssetCall) =>
        \A r \in CallRows :
            /\ r.aum_ghs = Difference(r.deposit_value_ghs, r.withdrawal_value_ghs)
            /\ r.aum_usd = Difference(r.deposit_value_usd, r.withdrawal_value_usd)

\* a call over a window with deposits and withdrawals, and a call over a
\* window with deposits only, whose net positions differ by currency
C3_Witness ==
    /\ IsGeneralCall
    /\ \E r \in CallRows :
        /\ r.deposit_value_ghs = <<20>>
        /\ r.withdrawal_value_ghs = <<10>>
        /\ r.aum_ghs = <<10>>
        /\ r.aum_usd = <<0>>

\* the transaction fails the inclusion predicate: its status is not success,
\* its owner is restricted, or its provider is the excluded one
FailsInclusion(t) ==
    \/ t.status # "success"
    \/ t.provider_number = "Flex Dollar"
    \/ customer_id(t) # NULL /\ users[customer_id(t)[1]].restricted

\* the ledger without the transactions that fail the inclusion predicate
WithoutFailing ==
    [t \in {x \in BagToSet(ledger) : ~FailsInclusion(x)} |-> ledger[t]]

\* C4: a transaction contributes to a metric of load_general_metrics,
\* load_asset_metrics, load_transaction_trend or load_total_users_by_asset_type
\* only if its status is success, its owner is not restricted and its provider
\* is not 'Flex Dollar': removing every transaction that fails the predicate
\* leaves the result of each loader unchanged.
C4_OnlyIncludedTransactionsCount ==
    /\ IsGeneralCall =>
         call.df \in load_general_metrics(WithoutFailing, call.start_date, call.end_date, TRUE)
    /\ IsAssetCall =>
         call.df \in load_asset_metrics(WithoutFailing, call.start_date, call.end_date, TRUE)
    /\ IsTrendCall =>
         call.df \in load_transaction_trend(WithoutFailing, call.start_date, call.end_date,
                                            call.granularity, TRUE)
    /\ IsUsersByAssetCall =>
         call.df \in load_total_users_by_asset_type(WithoutFailing, call.start_date,
                                                    call.end_date, TRUE)

\* a call over a window that holds a counted deposit next to a transaction
\* that fails the predicate
C4_Witness ==
    /\ IsGeneralCall
    /\ \E t \in BagToSet(ledger) : FailsInclusion(t) /\ InCallWindow(t)
    /\ call.df.rows[1].deposit_count = 1

\* the transaction's metadata holds the maintenance-fee marker
Marked(t) == t.metadata \in MarkedTexts

\* the count of the rows of S in the ledger
LedgerCount(S) == Total([t \in S |-> ledger[t]])

\* the sum of F over the rows of S in the ledger, absent over no rows
LedgerSum(S, F(_)) == IF S = {} THEN NULL ELSE <<Total([t \in S |-> ledger[t] * F(t)])>>

GhsAmount(t) == t.amount

UsdAmount(t) == t.usd_amount

\* the qualifying in-window transactions of raw type ty, marked or not as told
Counted(ty, marked) ==
    {t \in Qualifying : InCallWindow(t) /\ t.tx_type = ty /\ Marked(t) = marked}

\* C5: a qualifying transaction whose metadata contains the marker 'Monthly
\* maintenance fee deduction' in any letter case has effective type
\* maintenance_fee whatever its raw type; with raw type 'withdrawal' it adds
\* nothing to withdrawal_count or withdrawal_value_ghs/usd (general and per
\* asset), and its amount is added to maintenance_fees_ghs of its asset group.
C5_MaintenanceFeeOverride ==
    /\ \A t \in Qualifying : Marked(t) => transaction_type(t) = "maintenance_fee"
    /\ IsGeneralCall =>
        \A r \in CallRows :
            /\ r.withdrawal_count = LedgerCount(Counted("withdrawal", FALSE))
            /\ r.withdrawal_value_ghs = LedgerSum(Counted("withdrawal", FALSE), GhsAmount)
            /\ r.withdrawal_value_usd = LedgerSum(Counted("withdrawal", FALSE), UsdAmount)
    /\ IsAssetCall =>
        /\ \A r \in CallRows :
            LET G(S) == {t \in S : asset_type(t) = r.asset_type}
            IN  /\ r.withdrawal_count = LedgerCount(G(Counted("withdrawal", FALSE)))
                /\ r.withdrawal_value_ghs =
                     LedgerSum(G(Counted("withdrawal", FALSE)), GhsAmount)
                /\ r.withdrawal_value_usd =
                     LedgerSum(G(Counted("withdrawal", FALSE)), UsdAmount)
                /\ r.maintenance_fees_ghs =
                     LedgerSum(G(Counted("withdrawal", TRUE) \cup Counted("deposit", TRUE)),
                               GhsAmount)
        /\ \A t \in Counted("withdrawal", TRUE) :
            asset_type(t) # NULL => \E r \in CallRows : r.asset_type = asset_type(t)

\* a call whose window holds a marked withdrawal: its group has a
\* maintenance fee sum and no withdrawal
C5_Witness ==
    /\ IsAssetCall
    /\ \E t \in Counted("withdrawal", TRUE) :
        \E r \in CallRows :
            /\ r.asset_type = asset_type(t)
            /\ r.asset_type # NULL
            /\ r.withdrawal_count = 0
            /\ r.maintenance_fees_ghs = <<30>>

\* C6: the rows of load_transaction_trend are keyed by (period, effective
\* type), the effective type applying the maintenance-fee override, and are
\* ordered ascending by period: a maintenance-fee transaction of raw type
\* 'withdrawal' is not summed into the 'withdrawal' point of its period.
C6_TrendByEffectiveType ==
    IsTrendCall =>
        LET period(t) == DateTrunc(call.granularity, t.updated_at)
        IN  /\ \A r \in CallRows :
                r.tx_type = "withdrawal" =>
                    r.total_amount =
                        LedgerSum({t \in Counted("withdrawal", FALSE) : period(t) = r.period},
                                  GhsAmount)
            /\ \A i, j \in DOMAIN call.df.rows :
                i < j => call.df.rows[i].period <= call.df.rows[j].period

\* C7: the result of load_asset_metrics has no row for the absent (NULL)
\* asset-type label, while qualifying in-window transactions without a label
\* still count in the totals of load_general_metrics.
C7_NoRowForAbsentLabel ==
    /\ IsAssetCall => \A r \in CallRows : r.asset_type # NULL
    /\ IsGeneralCall =>
        \A r \in CallRows :
            /\ r.deposit_count = LedgerCount(Counted("deposit", FALSE))
            /\ r.withdrawal_count = LedgerCount(Counted("withdrawal", FALSE))

\* C8: a successful in-window transaction of a non-excluded provider that
\* links to neither a plan nor an investment plan has no asset-type label
\* and is still counted in the totals of load_general_metrics.
C8_UnlinkedCountedInTotals ==
    /\ \A t \in BagToSet(ledger) :
        (t.plan_id = NULL /\ t.investment_plan_id = NULL) => asset_type(t) = NULL
    /\ IsGeneralCall =>
        LET Of(ty) == {t \in BagToSet(ledger) :
                         /\ ~FailsInclusion(t)
                         /\ InCallWindow(t)
                         /\ t.tx_type = ty
                         /\ ~Marked(t)}
        IN  \A r \in CallRows :
                /\ r.deposit_count = LedgerCount(Of("deposit"))
                /\ r.deposit_value_ghs = LedgerSum(Of("deposit"), GhsAmount)
                /\ r.withdrawal_count = LedgerCount(Of("withdrawal"))
                /\ r.withdrawal_value_ghs = LedgerSum(Of("withdrawal"), GhsAmount)

\* a finished run of a page
RunEnded == run.pc \in {"done", "exception"}

\* C9: when a loader meets a data-source failure in a run of a page, the run
\* does not end in an unhandled exception: the page renders to completion.
C9_FailedLoaderPageStillRenders ==
    (RunEnded /\ run.raised # {}) => run.pc = "done"

\* C10: a run of General Overview in which load_general_metrics failed, and
\* no other loader did, still fetches and shows the trend and still shows the
\* user counts.
C10_GeneralFailureDoesNotBlockOthers ==
    (RunEnded /\ run.raised = {"load_general_metrics"}) =>
        /\ "trend_df" \in DOMAIN run.locals
        /\ run.shown \cap {"trend_chart", "trend_info"} # {}
        /\ "user_counts" \in run.shown

\* the customers with a qualifying transaction in the window of the last
\* call, of the asset type of row r when the call is load_asset_metrics
CustomersOfRow(r) ==
    {customer_id(t) : t \in {q \in Qualifying :
        /\ InCallWindow(q)
        /\ IsAssetCall => asset_type(q) = r.asset_type}}

\* C11: in the result of load_general_metrics and in every row of
\* load_asset_metrics no customer is counted both in new_depositors and in
\* recurring_depositors: together the two counts never exceed the number of
\* customers of the group.
C11_NewAndRecurringDisjoint ==
    (IsGeneralCall \/ IsAssetCall) =>
        \A r \in CallRows :
            r.new_depositors + r.recurring_depositors <= Cardinality(CustomersOfRow(r))

\* a customer, alone in the window, whose first deposit falls on a date of the
\* window and who deposited twice: counted as recurring and not as new
C11_Witness ==
    /\ IsGeneralCall \/ IsAssetCall
    /\ \E r \in CallRows :
        /\ Cardinality(CustomersOfRow(r)) = 1
        /\ \A c \in CustomersOfRow(r) :
              /\ Cardinality(DepositStamps(c, AnyTime)) = 2
              /\ FirstInCallDates(DepositStamps(c, AnyTime))
        /\ r.recurring_depositors = 1
        /\ r.new_depositors = 0

\* the fee schedule of the specification: label |-> <<rate numerator, rate
\* denominator (period divisor included), base>>
FeeSchedule ==
    ("Arbitrage" :> <<1, 100, "ghs volume">>) @@
    ("flex dollar savings" :> <<475, 120000, "usd deposits">>) @@
    ("Ladder Lock" :> <<6, 1200, "usd deposits">>) @@
    ("goal savings" :> <<6, 1200, "usd deposits">>) @@
    ("Risevest fixed income" :> <<2, 1200, "usd deposits">>) @@
    ("Risevest real estate" :> <<4, 1200, "usd deposits">>) @@
    ("Equity" :> <<2, 100, "ghs deposits">>) @@
    ("Mutual funds" :> <<2, 100, "ghs deposits">>) @@
    ("ETFs" :> <<2, 100, "usd deposits">>)

\* a sum of a row, an absent sum counted as 0
OrZero(x) == IF x = NULL THEN 0 ELSE x[1]

\* the base sum of a rule over the sums of row r
BaseSum(r, base) ==
    CASE base = "usd deposits" -> OrZero(r.deposit_value_usd)
      [] base = "ghs deposits" -> OrZero(r.deposit_value_ghs)
      [] base = "ghs volume" ->
            OrZero(r.deposit_value_ghs) + OrZero(r.withdrawal_value_ghs)

\* the greatest common divisor of two positive numbers
RECURSIVE Gcd(_, _)
Gcd(a, b) == IF b = 0 THEN a ELSE Gcd(b, a % b)

\* the fraction <<n, d>> equals rate[1] / rate[2] * base
IsRateTimes(fraction, rate, base) ==
    LET g == Gcd(fraction[2], rate[2])
    IN  fraction[1] * (rate[2] \div g) = rate[1] * base * (fraction[2] \div g)

\* C12: for each asset type in the fee schedule, estimated_revenue of its
\* load_asset_metrics row equals rate / period_divisor * base_sum, absent
\* sums counted as 0.
C12_EstimatedRevenueBySchedule ==
    IsAssetCall =>
        \A r \in CallRows :
            (r.asset_type # NULL /\ r.asset_type[1] \in DOMAIN FeeSchedule) =>
                LET rule == FeeSchedule[r.asset_type[1]]
                IN  IsRateTimes(r.estimated_revenue, rule, BaseSum(r, rule[3]))

\* a 'Ladder Lock' row with a USD deposit sum of 12000 and an estimated
\* revenue of 60
C12_Witness ==
    /\ IsAssetCall
    /\ \E r \in CallRows :
        /\ r.asset_type = Some("Ladder Lock")
        /\ r.deposit_value_usd = Some(12000)
        /\ r.estimated_revenue[1] = 60 * r.estimated_revenue[2]

\* C13: for every asset-type label that is not an entry of the fee schedule
\* (a label differing from an entry only in letter case included),
\* estimated_revenue of its load_asset_metrics row is 0, whatever the sums.
C13_NoRuleNoRevenue ==
    IsAssetCall =>
        \A r \in CallRows :
            (r.asset_type # NULL /\ r.asset_type[1] \notin DOMAIN FeeSchedule) =>
                r.estimated_revenue[1] = 0

\* a 'ladder lock' row with deposits, and no revenue
C13_Witness ==
    /\ IsAssetCall
    /\ \E r \in CallRows :
        /\ r.asset_type = Some("ladder lock")
        /\ r.deposit_value_usd = Some(12000)
        /\ r.estimated_revenue[1] = 0

IsUserInsightsCall == call.loader = "load_user_insights"

\* the customers with a row, created inside the window of the last call, in
\* one of the four activity tables
ActiveByCreation ==
    LET In(x) == call.start_date * TicksPerDay <= x /\ x <= call.end_date * TicksPerDay
    IN  {b.user_id : b \in {x \in budgets : In(x.created_at)}} \cup
        {m.user_id : m \in {x \in manual_and_external_transactions : In(x.created_at)}} \cup
        {investment_plans[i].user_id :
            i \in {x \in DOMAIN investment_plans : In(investment_plans[x].created_at)}} \cup
        {plans[i].user_id : i \in {x \in DOMAIN plans : In(plans[x].created_at)}}

\* the customers with a qualifying transaction inside the window of the last call
ActiveByTransaction == {customer_id(t)[1] : t \in {q \in Qualifying : InCallWindow(q)}}

\* C14: a customer is counted as active for the window exactly when the
\* customer's id appears in a budget, a manual/external transaction, an
\* investment plan or a plan created in the window, or in a qualifying
\* transaction (status success, non-restricted owner, provider not excluded)
\* in the window.
C14_ActiveIsUnionOfSources ==
    IsUserInsightsCall =>
        \A r \in CallRows :
            r.is_active <=> r.user_id \in ActiveByCreation \cup ActiveByTransaction

\* C15: first_transaction_date of a customer, as the first_transactions step
\* of load_general_metrics and load_asset_metrics computes it, is the minimum
\* timestamp over all of the customer's qualifying transactions, with no
\* window bound; a transaction that fails the inclusion predicate never
\* lowers it.
C15_FirstTransactionOverQualifying ==
    (IsGeneralCall \/ IsAssetCall) =>
        \A t \in Qualifying :
            \E first \in {q \in Qualifying : customer_id(q) = customer_id(t)} :
                /\ first_transaction_date(ledger, t) = Some(first.updated_at)
                /\ \A q \in Qualifying :
                      customer_id(q) = customer_id(t) => first.updated_at <= q.updated_at

\* the counts, the sums and the averages of the row of load_general_metrics
GeneralCounts(r) ==
    {r.deposit_count, r.withdrawal_count, r.total_depositors, r.total_withdrawers,
     r.new_depositors, r.recurring_depositors, r.asset_type_count}

GeneralSums(r) ==
    {r.deposit_value_ghs, r.deposit_value_usd, r.withdrawal_value_ghs,
     r.withdrawal_value_usd, r.aum_ghs, r.aum_usd}

GeneralAverages(r) ==
    {r.avg_deposit_value_ghs, r.avg_deposit_value_usd,
     r.avg_withdrawal_value_ghs, r.avg_withdrawal_value_usd}

\* the window of the last call holds no qualifying transaction
EmptyCallWindow == \A t \in Qualifying : ~InCallWindow(t)

\* C16: for a window with no qualifying transaction load_general_metrics
\* returns one row whose counts are all 0 and whose sums and averages are 0
\* or absent; fmt and fmt_int display every one of them as 0.
C16_EmptyWindowAllZero ==
    (IsGeneralCall /\ EmptyCallWindow) =>
        /\ Len(call.df.rows) = 1
        /\ \A r \in CallRows :
              /\ \A c \in GeneralCounts(r) : c = 0 /\ fmt_int(Some(c)) = "0"
              /\ \A x \in GeneralSums(r) :
                    (x = NULL \/ x = Some(0)) /\ fmt(Exact(x)) = "0.00"
              /\ \A x \in GeneralAverages(r) :
                    (x = NULL \/ x[1][1] = 0) /\ fmt(x) = "0.00"

\* a call for a window with no qualifying transaction over a ledger that has
\* one on another day: the sums are absent and displayed as 0.00
C16_Witness ==
    /\ IsGeneralCall
    /\ EmptyCallWindow
    /\ Qualifying # {}
    /\ \E r \in CallRows :
          /\ r.deposit_count = 0
          /\ r.deposit_value_ghs = NULL
          /\ fmt(Exact(r.deposit_value_ghs)) = "0.00"

\* the rows of a DataFrame as a set
RowSet(df) == {df.rows[i] : i \in DOMAIN df.rows}

\* the last call was the second of two calls of a loader with the same
\* arguments, with no change of the ledger between them
CalledTwice == call # NoCall /\ "calls" \in DOMAIN call /\ call.calls = 2

C18_DatesWithinRange ==
    run.pc = "dates" =>
        /\ LaunchDay <= run.start_date
        /\ run.start_date <= run.end_date
        /\ run.end_date <= run.today

\* a run of 'Last Week' in which the user moved the start date to the end of
\* the quick range, and a run of 'All Time' that keeps both ends of the range
C18_Witness ==
    /\ run.pc = "dates"
    /\ \/ /\ run.date_choice = "Last Week"
          /\ run.start_date = get_date_range("Last Week", run.today)[2]
          /\ run.end_date = run.start_date
          /\ run.end_date < run.today
       \/ /\ run.date_choice = "All Time"
          /\ run.start_date = LaunchDay
          /\ run.end_date = run.today

\* the step appends to the ledger a transaction dated after the end date of
\* the window w
AppendsAfter(w) ==
    \E t \in CohortInputs :
        /\ ledger' = ledger (+) SetToBag({t})
        /\ Date(t.updated_at) > w[2]

\* C19: appending to the ledger a transaction whose timestamp is after the
\* end of a window changes no field of load_general_metrics or
\* load_asset_metrics recomputed for that window; a customer counted as new
\* for the window stays new.
C19_LaterTransactionKeepsWindow ==
    [][\A w \in Windows :
          AppendsAfter(w) =>
              /\ load_general_metrics(ledger', w[1], w[2], TRUE)
                    = load_general_metrics(ledger, w[1], w[2], TRUE)
              /\ load_asset_metrics(ledger', w[1], w[2], TRUE)
                    = load_asset_metrics(ledger, w[1], w[2], TRUE)]_vars

\* the last call was the second of two calls of a cached loader with the
\* same arguments: the first was made while the data source failed, the
\* second once it is reachable again
CalledAgainAfterFailure ==
    /\ CalledTwice
    /\ call.loader # "load_transaction_trend"
    /\ ~call.first_ok
    /\ call.ok

\* C20: after a cached loader has returned its empty/default result because
\* of a data-source failure for a window, a later call with the same
\* (start_date, end_date) made once the store is reachable again returns the
\* metrics computed from the store, not the earlier failure result.
C20_RecoveredCallReturnsMetrics ==
    CalledAgainAfterFailure =>
        call.df \in Results(call.loader, ledger, call.start_date, call.end_date,
                            call.granularity, TRUE)

\* the last call was a call of load_general_metrics or load_asset_metrics
\* made while the data source answers, and no failure result is stored for
\* its arguments
IsAnsweredMetricsCall ==
    /\ call # NoCall
    /\ call.loader \in {"load_general_metrics", "load_asset_metrics"}
    /\ call.ok
    /\ \A c \in CacheHits(call.loader, call.start_date, call.end_date) :
          c.value # EmptyDataFrame

\* C21: a call to a cached loader made after a new qualifying transaction
\* inside the window was appended to the ledger returns metrics that include
\* that transaction: results served for the key (start_date, end_date) are
\* never older than the ledger they describe.
C21_CachedResultIsCurrent ==
    IsAnsweredMetricsCall =>
        call.df \in Results(call.loader, ledger, call.start_date, call.end_date,
                            call.granularity, TRUE)

\* the qualifying deposits whose calendar date lies between the start date
\* and the end date of the last call
DepositsOnCallDates ==
    {t \in Qualifying :
        /\ t.tx_type = "deposit"
        /\ call.start_date <= Date(t.updated_at)
        /\ Date(t.updated_at) <= call.end_date}

\* C22: the reporting window is inclusive of the whole end date: a
\* qualifying transaction whose timestamp falls on end_date at any time of
\* day is counted by load_general_metrics (a deposit on a date of the window
\* is in deposit_count).
C22_WholeEndDateCounted ==
    IsGeneralCall =>
        \A r \in CallRows :
            DepositsOnCallDates # {} => r.deposit_count >= 1

\* minus the sum x
Negated(x) == Some(0 - x[1])

\* C23: when a window (or an asset group) has qualifying withdrawals but no
\* qualifying deposits, aum_ghs and aum_usd equal minus the withdrawal sum
\* and are shown by fmt as that negative amount, not as absent / 0.00.
C23_AumOfWithdrawalsOnly ==
    (IsGeneralCall \/ IsAssetCall) =>
        \A r \in CallRows :
            (r.deposit_count = 0 /\ r.withdrawal_count > 0) =>
                /\ r.aum_ghs = Negated(r.withdrawal_value_ghs)
                /\ r.aum_usd = Negated(r.withdrawal_value_usd)
                /\ fmt(Exact(r.aum_ghs)) = fmt(Exact(Negated(r.withdrawal_value_ghs)))
                /\ fmt(Exact(r.aum_usd)) = fmt(Exact(Negated(r.withdrawal_value_usd)))

\* the asset types of the rows load_asset_metrics returns for the window of
\* the last call over the ledger
AssetMetricsTypes ==
    UNION {{r.asset_type : r \in RowSet(df)} :
            df \in load_asset_metrics(ledger, call.start_date, call.end_date, TRUE)}

\* C24: for the same window and ledger, every asset type returned by
\* get_asset_types has a row in the result of load_asset_metrics.
C24_EveryListedTypeHasMetrics ==
    call.loader = "get_asset_types" =>
        \A i \in DOMAIN call.df : Some(call.df[i]) \in AssetMetricsTypes

\* the transaction belongs to the group of row r of the last call: any
\* transaction for load_general_metrics, the transactions of the row's asset
\* type for load_asset_metrics
OfRow(r, t) == IsAssetCall => asset_type(t) = r.asset_type

\* the number of qualifying deposits of customer c in the group of row r
DepositsOf(c, r) ==
    CountRows(ledger, {d \in Qualifying :
        d.tx_type = "deposit" /\ customer_id(d) = c /\ OfRow(r, d)})

\* the distinct timestamps of the qualifying deposits of customer c in the
\* group of row r
StampsOf(c, r) ==
    {d.updated_at : d \in {q \in Qualifying :
        q.tx_type = "deposit" /\ customer_id(q) = c /\ OfRow(r, q)}}

SidebarRan == run.pc \in {"dates", "exception"}

\* C26: for every value of today, the ranges get_date_range returns for
\* 'This Week' and 'Last Week' are disjoint and adjacent: Last Week's end is
\* exactly the day before This Week's start.
C26_WeeksAdjacent ==
    SidebarRan =>
        get_date_range("Last Week", run.today)[2]
            = get_date_range("This Week", run.today)[1] - 1

====
